---- MODULE Spec2Model ----
(***************************************************************************)
(* Model of src/analysis.py: the frame sampler, the worker pool with its   *)
(* unordered completion stream, the per-video aggregation and the batch    *)
(* orchestration (process_all_videos).                                     *)
(*                                                                         *)
(* Numbers: face_confidence is kept in hundredths (0.8 is 80), emotion     *)
(* scores are the model's percentages.  Python's None is the empty         *)
(* sequence <<>> and a present value v is <<v>>.  A dict that Python       *)
(* iterates in insertion order is a sequence of [name, score] entries.     *)
(***************************************************************************)
EXTENDS Integers, Sequences, FiniteSets, TLC

\* ------------------------------------------------------------------ bounds
\* Specification Spec: one video, every kind of frame, several workers.
MaxFrames == 2
MaxStride == 3
MaxPool == 2
\* Specification SpecSampler: one long video, one worker.
MaxSampleFrames == 12
\* Specification SpecPool: one video, the pool size unset (0) or 1.
MaxPoolFrames == 5
\* Specification SpecBatch: several files, short videos, one worker.
MaxFiles == 2
MaxBatchFrames == 2
\* Specification SpecFair: several files, videos of one frame, one worker.
MaxFairFiles == 2
MaxFairFrames == 1

\* ------------------------------------------------------- program constants
FACE_CONFIDENCE_THRESHOLD == 80
EMOTION_SCORE_THRESHOLD == 50
DefaultProcesses == 4

emotions_list == <<"angry", "disgust", "fear", "happy", "sad", "surprise", "neutral">>

Emotions == {emotions_list[i] : i \in 1..Len(emotions_list)}

VideoExtensions == {"mp4", "avi", "mov", "mkv"}

\* ------------------------------------------------------------ environment
\* A file name of the video directory: the text before the last dot (its
\* rank in lexical order) and the extension as it is spelled on disk.
FileNames ==
    { [stem |-> 1, ext |-> "mp4"], [stem |-> 1, ext |-> "AVI"],
      [stem |-> 2, ext |-> "mkv"], [stem |-> 2, ext |-> "txt"] }

\* str.lower() on the extensions that occur.
Lower(s) ==
    CASE s = "AVI" -> "avi"
      [] s = "MP4" -> "mp4"
      [] s = "MOV" -> "mov"
      [] s = "MKV" -> "mkv"
      [] OTHER -> s

\* The frames a decoder can deliver.  "empty" is an image of size 0; the
\* others are images on which the external model behaves as below.
InvalidFrames == {"empty"}
AllFrames == {"empty", "corrupt", "nomap", "lowconf", "edge", "weak"}

Scores(a, d, f, h, s, su, n) ==
    << [name |-> "angry", score |-> a], [name |-> "disgust", score |-> d],
       [name |-> "fear", score |-> f], [name |-> "happy", score |-> h],
       [name |-> "sad", score |-> s], [name |-> "surprise", score |-> su],
       [name |-> "neutral", score |-> n] >>

\* DeepFace.analyze(img_path=frame, ...)[0]: the external model, a fixed
\* function of the image.  raised: the call threw.  Otherwise the face's
\* entry, whose "emotion" mapping may be missing (read as {} by .get).
\*   lowconf: no face (confidence below the threshold), yet high raw scores
\*   edge:    confidence equal to the threshold, two scores tied at 50
\*   weak:    a face, no score reaches 50
DeepFace_analyze(frame) ==
    CASE frame = "corrupt" ->
           [raised |-> TRUE, emotion |-> <<>>, face_confidence |-> 0]
      [] frame = "nomap" ->
           [raised |-> FALSE, emotion |-> <<>>, face_confidence |-> 91]
      [] frame = "lowconf" ->
           [raised |-> FALSE, emotion |-> Scores(1, 0, 2, 90, 3, 4, 0),
            face_confidence |-> 79]
      [] frame = "edge" ->
           [raised |-> FALSE, emotion |-> Scores(0, 0, 50, 0, 50, 0, 0),
            face_confidence |-> 80]
      [] OTHER ->
           [raised |-> FALSE, emotion |-> Scores(5, 0, 6, 30, 10, 0, 49),
            face_confidence |-> 95]

\* ------------------------------------------------------------ dict helpers
\* emo.get(key, default)
Get(emo, key, default) ==
    IF \E i \in 1..Len(emo) : emo[i].name = key
    THEN emo[CHOOSE i \in 1..Len(emo) : emo[i].name = key].score
    ELSE default

\* max(emo, key=emo.get): the first key, in iteration order, whose score no
\* other score exceeds.  Undefined (ValueError) on an empty mapping.
MaxKey(emo) ==
    LET best == CHOOSE i \in 1..Len(emo) :
                   /\ \A j \in 1..Len(emo) : emo[j].score <= emo[i].score
                   /\ \A j \in 1..(i - 1) : emo[j].score < emo[i].score
    IN  emo[best].name

\* Mutant: the configured pool size is used as it is.
get_num_processes_no_fallback(pool_size) == pool_size

\* ----------------------------------------------------------- pure helpers
\* get_num_processes(): config.POOL_SIZE, or 4 when it is 0.
get_num_processes(pool_size) ==
    IF pool_size # 0 THEN pool_size ELSE DefaultProcesses

\* Mutant: the extension is not looked at.
is_video_file_no_filter(f) == TRUE

\* f.lower().endswith(('.mp4', '.avi', '.mov', '.mkv'))
is_video_file(f) == Lower(f.ext) \in VideoExtensions

\* os.path.splitext(os.path.basename(video_path))[0]
source_of(video) == video.stem

Sources == {source_of(f) : f \in FileNames}

\* Mutant: frames are counted from 1.
is_sampled_from_one(n, step) == (n + 1) % step = 0

\* if frame_number % frame_step == 0
is_sampled(n, step) == n % step = 0

\* Mutant: the score has to exceed the threshold.
get_dominant_emotion_strict(emo) ==
    IF emo = <<>> THEN "no emotion detected"
    ELSE LET dominant == MaxKey(emo)
         IN  IF Get(emo, dominant, 0) > EMOTION_SCORE_THRESHOLD
             THEN dominant
             ELSE "no dominant emotion detected"

\* get_dominant_emotion(emo)
get_dominant_emotion(emo) ==
    IF emo = <<>> THEN "no emotion detected"
    ELSE LET dominant == MaxKey(emo)
         IN  IF Get(emo, dominant, 0) >= EMOTION_SCORE_THRESHOLD
             THEN dominant
             ELSE "no dominant emotion detected"

\* What the worker does with a task: "invalid" (rejected before the model
\* is called), "exception" (the try block threw: the model, or max() of an
\* empty mapping) or "ok".
worker_path(task) ==
    IF task.frame \in InvalidFrames THEN "invalid"
    ELSE LET a == DeepFace_analyze(task.frame)
         IN  IF a.raised \/ a.emotion = <<>> THEN "exception" ELSE "ok"

\* Mutant: an empty emotion mapping is passed on as a result.
analyse_emotion_multiproc_tolerant(task) ==
    LET a == DeepFace_analyze(task.frame)
    IN  IF task.frame \in InvalidFrames
        THEN [analysis_dict |-> <<>>, emotion |-> <<>>,
              error |-> << [kind |-> "invalid frame",
                            frame_number |-> task.frame_number] >>]
        ELSE IF a.raised
        THEN [analysis_dict |-> <<>>, emotion |-> <<>>,
              error |-> << [kind |-> "error in analysis",
                            frame_number |-> task.frame_number] >>]
        ELSE [analysis_dict |-> << [emotion |-> a.emotion,
                                    face_confidence |-> a.face_confidence,
                                    frame_number |-> task.frame_number] >>,
              emotion |-> IF a.emotion = <<>> THEN <<>>
                          ELSE << MaxKey(a.emotion) >>,
              error |-> <<>>]

\* analyse_emotion_multiproc(args): (analysis_dict, candidate, error)
analyse_emotion_multiproc(task) ==
    LET a == DeepFace_analyze(task.frame)
    IN  CASE worker_path(task) = "invalid" ->
               [analysis_dict |-> <<>>, emotion |-> <<>>,
                error |-> << [kind |-> "invalid frame",
                              frame_number |-> task.frame_number] >>]
          [] worker_path(task) = "exception" ->
               [analysis_dict |-> <<>>, emotion |-> <<>>,
                error |-> << [kind |-> "error in analysis",
                              frame_number |-> task.frame_number] >>]
          [] OTHER ->
               [analysis_dict |-> << [emotion |-> a.emotion,
                                      face_confidence |-> a.face_confidence,
                                      frame_number |-> task.frame_number] >>,
                emotion |-> << MaxKey(a.emotion) >>,
                error |-> <<>>]

\* Mutant: the raw score whatever the confidence.
emotion_column_ungated(raw_output, face_confidence, emo) ==
    Get(raw_output, emo, 0)

\* The value of one emotion column of a row (lines 257-262).
emotion_column(raw_output, face_confidence, emo) ==
    IF face_confidence >= FACE_CONFIDENCE_THRESHOLD
    THEN Get(raw_output, emo, 0)
    ELSE 0

\* The dominant_emotion column of a row (lines 265-269).
dominant_column(raw_output, face_confidence) ==
    IF face_confidence < FACE_CONFIDENCE_THRESHOLD
    THEN "no face detected"
    ELSE get_dominant_emotion(raw_output)

\* One row of the per-video table, from one analysis dict.
make_row(d, source) ==
    [frame_number |-> d.frame_number,
     dominant_emotion |-> dominant_column(d.emotion, d.face_confidence),
     angry |-> emotion_column(d.emotion, d.face_confidence, "angry"),
     disgust |-> emotion_column(d.emotion, d.face_confidence, "disgust"),
     fear |-> emotion_column(d.emotion, d.face_confidence, "fear"),
     happy |-> emotion_column(d.emotion, d.face_confidence, "happy"),
     sad |-> emotion_column(d.emotion, d.face_confidence, "sad"),
     surprise |-> emotion_column(d.emotion, d.face_confidence, "surprise"),
     neutral |-> emotion_column(d.emotion, d.face_confidence, "neutral"),
     face_confidence |-> d.face_confidence,
     raw_output |-> d.emotion,
     source |-> source]

\* Lexicographic <= on two equally long tuples of numbers.
LexLE(a, b) ==
    \/ a = b
    \/ \E i \in 1..Len(a) :
         /\ a[i] < b[i]
         /\ \A j \in 1..(i - 1) : a[j] = b[j]

SortKey(row, by) == [i \in 1..Len(by) |-> row[by[i]]]

\* Mutant: the rows stay in the order of arrival.
sort_values_none(df, by) == df

\* df.sort_values(by=...): ascending, rows with equal keys keep their order.
\* Row i goes to the place after all rows with a smaller key and all earlier
\* rows with the same key.
sort_values(df, by) ==
    LET before(j, i) ==
          \/ /\ LexLE(SortKey(df[j], by), SortKey(df[i], by))
             /\ SortKey(df[j], by) # SortKey(df[i], by)
          \/ /\ SortKey(df[j], by) = SortKey(df[i], by)
             /\ j < i
        rank(i) == Cardinality({j \in 1..Len(df) : before(j, i)}) + 1
    IN  [p \in 1..Len(df) |-> df[CHOOSE i \in 1..Len(df) : rank(i) = p]]

\* Mutant: the rows stay in the order of the completions.
build_table_unsorted(res, source) ==
    [i \in 1..Len(res) |-> make_row(res[i], source)]

\* The table analyse_video_internal builds from its results (lines 249-280).
build_table(res, source) ==
    sort_values([i \in 1..Len(res) |-> make_row(res[i], source)],
                <<"frame_number">>)

\* pd.concat(combined_dfs, ignore_index=True)
RECURSIVE concat(_)
concat(dfs) ==
    IF dfs = <<>> THEN <<>> ELSE Head(dfs) \o concat(Tail(dfs))

\* Mutant: sorted by frame_number alone.
combine_tables_by_frame(dfs) == sort_values(concat(dfs), <<"frame_number">>)

\* The combined table (lines 355-366).
combine_tables(dfs) == sort_values(concat(dfs), <<"source", "frame_number">>)

\* Mutant: only a success moves the counter.
update_progress_on_success(counter, res) ==
    IF res.analysis_dict # <<>> THEN counter + 1 ELSE counter

\* update_progress: the counter after one completion (line 211).
update_progress(counter, res) == counter + 1

\* update_progress: whether this completion writes a progress line (line 213).
logs_progress(current_progress, total) ==
    current_progress % (IF total \div 10 > 1 THEN total \div 10 ELSE 1) = 0

\* The drain loop's bookkeeping for one completion (lines 228-234).
collect_results(rs, res) ==
    IF res.analysis_dict # <<>> THEN Append(rs, res.analysis_dict[1]) ELSE rs

count_analysed(n, res) ==
    IF res.analysis_dict # <<>> THEN n + 1 ELSE n

\* Mutant: an invalid frame is not counted.
count_unsuccessful_errors_only(n, res) ==
    IF res.analysis_dict # <<>> THEN n
    ELSE IF res.error # <<>> /\ res.error[1].kind = "error in analysis"
         THEN n + 1 ELSE n

count_unsuccessful(n, res) ==
    IF res.analysis_dict # <<>> THEN n
    ELSE IF res.error # <<>> THEN n + 1 ELSE n

\* ------------------------------------------------------------------ state
VARIABLES
    listing,              \* os.listdir(VIDEO_DIR)
    frame_step,           \* the frame_step argument
    POOL_SIZE,            \* config.POOL_SIZE
    limits,               \* what decoders deliver: longest video, kinds of frame
    pc,                   \* where the coordinator is
    video_files,          \* process_all_videos: the videos found
    vidx,                 \* process_all_videos: index of the current video
    combined_dfs,         \* process_all_videos: the tables returned so far
    tasks,                \* analyse_video_internal: (frame, frame_number) tasks
    frame_number,         \* analyse_video_internal
    total_frames,         \* analyse_video_internal
    workers,              \* the pool's worker processes (empty: no pool)
    next_task,            \* index of the next task the pool hands out
    completions,          \* results completed and not yet drained, oldest first
    progress_counter,     \* manager.Value('i', 0)
    progress_lines,       \* progress lines logged for the current video
    results,              \* analyse_video_internal
    analysed_frames,      \* analyse_video_internal
    unsuccessful_retries, \* analyse_video_internal
    error_counter,        \* error_counter['first_backend_error'], coordinator's
    csv_dir,              \* per-video tables written, by source identifier
    combined_csv,         \* the combined table written, if any
    pool_count,           \* worker pools created so far
    video_log,            \* per video attempted: how analyse_video ended
    lock,                 \* manager.Lock(): the processes that hold it
    current,              \* the completion the drain loop is working on
    task_log              \* per task: times taken, model calls, outcomes

vars == <<listing, frame_step, POOL_SIZE, limits, pc, video_files, vidx,
          combined_dfs, tasks, frame_number, total_frames, workers, next_task,
          completions, progress_counter, progress_lines, results,
          analysed_frames, unsuccessful_retries, error_counter, csv_dir,
          combined_csv, pool_count, video_log, lock, current, task_log>>

config_vars == <<listing, frame_step, POOL_SIZE, limits>>
batch_vars == <<video_files, combined_dfs, combined_csv>>
video_vars == <<tasks, frame_number, total_frames>>
pool_vars == <<workers, next_task, completions, task_log>>
drain_vars == <<progress_counter, progress_lines, results, analysed_frames,
                unsuccessful_retries, lock, current>>

\* Sequences without repetition over S, of length at most n.
RECURSIVE Listings(_, _)
Listings(S, n) ==
    IF n = 0 THEN {<<>>}
    ELSE LET shorter == Listings(S, n - 1)
         IN  shorter \cup {Append(l, f) : <<l, f>> \in
                             {<<l, f>> \in shorter \X S :
                                \A i \in 1..Len(l) : l[i] # f}}

total_tasks == Len(tasks)

InitWith(files, steps, pools, lim) ==
    /\ listing \in files
    /\ frame_step \in steps
    /\ POOL_SIZE \in pools
    /\ limits = lim
    /\ pc = "start"
    /\ video_files = <<>>
    /\ vidx = 0
    /\ combined_dfs = <<>>
    /\ tasks = <<>>
    /\ frame_number = 0
    /\ total_frames = 0
    /\ workers = <<>>
    /\ next_task = 1
    /\ completions = <<>>
    /\ progress_counter = 0
    /\ progress_lines = 0
    /\ results = <<>>
    /\ analysed_frames = 0
    /\ unsuccessful_retries = 0
    /\ error_counter = 0
    /\ csv_dir = [s \in Sources |-> <<>>]
    /\ combined_csv = <<>>
    /\ pool_count = 0
    /\ video_log = <<>>
    /\ lock = {}
    /\ current = <<>>
    /\ task_log = <<>>

\* One video at most, any kind of frame, any stride and pool size.
Init ==
    InitWith(Listings(FileNames, 1), 1..MaxStride, 1..MaxPool,
             [max_frames |-> MaxFrames, frames |-> AllFrames])

\* One long video of frames the model reads well, any stride, one worker.
InitSampler ==
    InitWith(Listings(FileNames, 1), 1..MaxStride, {1},
             [max_frames |-> MaxSampleFrames, frames |-> {"edge"}])

\* One video of frames the model reads well; config.POOL_SIZE is 0 (one
\* physical core: the pool falls back to 4 workers) or 1.
InitPool ==
    InitWith(Listings(FileNames, 1), {1}, {0, 1},
             [max_frames |-> MaxPoolFrames, frames |-> {"edge"}])

\* Several files; short videos whose frames fail or succeed, one worker.
InitBatch ==
    InitWith(Listings(FileNames, MaxFiles), {1}, {1},
             [max_frames |-> MaxBatchFrames, frames |-> {"corrupt", "edge"}])

\* ---------------------------------------------------------------- actions
\* process_all_videos, lines 324-345: list the directory, keep the videos.
Discover ==
    /\ pc = "start"
    /\ video_files' = SelectSeq(listing, is_video_file)
    /\ IF video_files' = <<>>
       THEN pc' = "done" /\ vidx' = vidx
       ELSE pc' = "next" /\ vidx' = 1
    /\ UNCHANGED <<config_vars, combined_dfs, combined_csv, video_vars,
                   pool_vars, drain_vars, error_counter, csv_dir, pool_count,
                   video_log>>

\* Mutant: a video that cannot be opened ends the batch.
on_open_failure_abort == "done"

\* Mutant: a video that cannot be opened raises in the coordinator.
on_open_failure_raise == "crashed"

\* Where the coordinator goes when a video cannot be opened: None is
\* returned (line 171) and the batch loop moves on to the next video.
on_open_failure == "next"

\* analyse_video -> analyse_video_internal, lines 168-181: open the video.
\* It opens or not; when it does not, None is returned to the batch loop.
OpenVideo ==
    /\ pc = "next"
    /\ vidx <= Len(video_files)
    /\ \E opened \in BOOLEAN :
         IF opened
         THEN /\ pc' = "read"
              /\ tasks' = <<>>
              /\ frame_number' = 0
              /\ total_frames' = 0
              /\ UNCHANGED <<vidx, video_log>>
         ELSE /\ pc' = on_open_failure
              /\ vidx' = vidx + 1
              /\ video_log' = Append(video_log,
                     [video |-> video_files[vidx], ended |-> "could not open",
                      df |-> <<>>, summary |-> <<>>])
              /\ UNCHANGED video_vars
    /\ UNCHANGED <<config_vars, batch_vars, pool_vars, drain_vars,
                   error_counter, csv_dir, pool_count>>

\* One turn of the sampling loop with ret true, lines 185-191.
ReadFrame ==
    /\ pc = "read"
    /\ total_frames < limits.max_frames
    /\ \E frame \in limits.frames :
         tasks' = IF is_sampled(frame_number, frame_step)
                  THEN Append(tasks, [frame |-> frame,
                                      frame_number |-> frame_number])
                  ELSE tasks
    /\ total_frames' = total_frames + 1
    /\ frame_number' = frame_number + 1
    /\ UNCHANGED <<config_vars, pc, batch_vars, vidx, pool_vars, drain_vars,
                   error_counter, csv_dir, pool_count, video_log>>

\* The read that returns ret false, then lines 195-226: the counters and
\* the lock are created and the pool is started, its workers still to run.
StartPool ==
    /\ pc = "read"
    /\ pc' = "drain"
    /\ workers' = [w \in 1..get_num_processes(POOL_SIZE) |->
                     [state |-> "starting", task |-> 0,
                      global_model |-> "None", error_counter |-> error_counter,
                      inits |-> 0, video |-> vidx]]
    /\ next_task' = 1
    /\ completions' = <<>>
    /\ task_log' = [i \in 1..Len(tasks) |->
                      [taken |-> 0, model_calls |-> 0, backend_errors |-> 0,
                       outcomes |-> <<>>]]
    /\ progress_counter' = 0
    /\ progress_lines' = 0
    /\ results' = <<>>
    /\ analysed_frames' = 0
    /\ unsuccessful_retries' = 0
    /\ lock' = {}
    /\ current' = <<>>
    /\ pool_count' = pool_count + 1
    /\ UNCHANGED <<config_vars, batch_vars, vidx, video_vars, error_counter,
                   csv_dir, video_log>>

\* A worker process starts: init_worker(emotion_model).
InitWorker(w) ==
    /\ workers[w].state = "starting"
    /\ workers' = [workers EXCEPT ![w].state = "idle",
                                  ![w].global_model = "emotion_model",
                                  ![w].inits = @ + 1]
    /\ UNCHANGED <<config_vars, pc, batch_vars, vidx, video_vars, next_task,
                   completions, task_log, drain_vars, error_counter, csv_dir,
                   pool_count, video_log>>

\* Mutant: a worker takes tasks before its initializer has run.
can_take_unready(worker) == worker.state \in {"idle", "starting"}

\* A worker process fetches tasks only after its initializer has returned
\* (Pool(initializer=init_worker), line 225).
can_take(worker) == worker.state = "idle"

\* An idle worker takes the next task of the pool's queue.
TakeTask(w) ==
    /\ can_take(workers[w])
    /\ next_task <= Len(tasks)
    /\ workers' = [workers EXCEPT ![w].state = "busy", ![w].task = next_task]
    /\ task_log' = [task_log EXCEPT ![next_task].taken = @ + 1]
    /\ next_task' = next_task + 1
    /\ UNCHANGED <<config_vars, pc, batch_vars, vidx, video_vars, completions,
                   drain_vars, error_counter, csv_dir, pool_count, video_log>>

\* Mutant: the model is called before the frame is looked at.
model_calls_for_unchecked(task) == 1

\* Mutant: a call that fails is tried a second time.
model_calls_for_retry(task) ==
    IF worker_path(task) = "invalid" THEN 0
    ELSE IF worker_path(task) = "exception" THEN 2 ELSE 1

\* How often analyse_emotion_multiproc calls DeepFace.analyze for a task
\* (lines 124-133).
model_calls_for(task) ==
    IF worker_path(task) = "invalid" THEN 0 ELSE 1

\* How often it increments error_counter['first_backend_error'] (line 143).
backend_errors_for(task) ==
    IF worker_path(task) = "exception" THEN 1 ELSE 0

\* Mutant: max() of an empty mapping is evaluated outside the try block.
worker_raises_on_empty_mapping(task) ==
    /\ task.frame \notin InvalidFrames
    /\ ~DeepFace_analyze(task.frame).raised
    /\ DeepFace_analyze(task.frame).emotion = <<>>

\* Whether analyse_emotion_multiproc lets an exception escape: never, the
\* model call and the extraction are inside try ... except Exception
\* (lines 126-144).
worker_raises(task) == FALSE

\* What the pool delivers for a task: the function's return value, or the
\* exception it raised, which imap_unordered raises again in the coordinator.
pool_result(task) ==
    [raised |-> worker_raises(task), value |-> analyse_emotion_multiproc(task)]

\* The worker returns from analyse_emotion_multiproc; its result joins the
\* completion stream.  The except branch counts in the worker's own process.
FinishTask(w) ==
    /\ workers[w].state = "busy"
    /\ LET task == tasks[workers[w].task]
       IN  /\ completions' = Append(completions, pool_result(task))
           /\ workers' = [workers EXCEPT
                  ![w].state = "idle",
                  ![w].task = 0,
                  ![w].error_counter = @ + backend_errors_for(task)]
           /\ task_log' = [task_log EXCEPT
                  ![workers[w].task].model_calls = @ + model_calls_for(task),
                  ![workers[w].task].backend_errors = @ + backend_errors_for(task),
                  ![workers[w].task].outcomes = Append(@, pool_result(task))]
    /\ UNCHANGED <<config_vars, pc, batch_vars, vidx, video_vars, next_task,
                   drain_vars, error_counter, csv_dir, pool_count, video_log>>

\* Mutant: the pool is left running when the loop ends.
shutdown_pool_leak(ws) == ws

\* Leaving "with mp.Pool(...) as pool" terminates the workers (line 225).
shutdown_pool(ws) == <<>>

\* "with lock:" entered and left by process p (line 210).
acquire_lock(l, p) == l \cup {p}

\* Mutant: the lock is not released.
release_lock_never(l, p) == l

release_lock(l, p) == l \ {p}

\* One turn of the drain loop, first half (lines 226-227, 210-217): the next
\* completion is taken off the stream; an exception it carries is raised
\* here and ends the run.  Otherwise update_progress takes the lock,
\* increments and reads the counter and decides on the progress line.
Drain ==
    /\ pc = "drain"
    /\ completions # <<>>
    /\ completions' = Tail(completions)
    /\ IF Head(completions).raised
       THEN /\ pc' = "crashed"
            /\ workers' = shutdown_pool(workers)
            /\ UNCHANGED drain_vars
       ELSE /\ lock = {}
            /\ lock' = acquire_lock(lock, "coordinator")
            /\ current' = << Head(completions).value >>
            /\ progress_counter' =
                  update_progress(progress_counter, Head(completions).value)
            /\ progress_lines' =
                  IF logs_progress(progress_counter', total_tasks)
                  THEN progress_lines + 1 ELSE progress_lines
            /\ pc' = "update"
            /\ UNCHANGED <<workers, results, analysed_frames,
                           unsuccessful_retries>>
    /\ UNCHANGED <<config_vars, batch_vars, vidx, video_vars, next_task,
                   task_log, error_counter, csv_dir, pool_count, video_log>>

\* One turn of the drain loop, second half (lines 217, 228-234): the lock is
\* released and the result is kept or counted as a failure.
Collect ==
    /\ pc = "update"
    /\ lock' = release_lock(lock, "coordinator")
    /\ results' = collect_results(results, current[1])
    /\ analysed_frames' = count_analysed(analysed_frames, current[1])
    /\ unsuccessful_retries' = count_unsuccessful(unsuccessful_retries, current[1])
    /\ current' = <<>>
    /\ pc' = "drain"
    /\ UNCHANGED <<config_vars, batch_vars, vidx, video_vars, pool_vars,
                   progress_counter, progress_lines, error_counter, csv_dir,
                   pool_count, video_log>>

\* Every task has been handed out, finished and drained.
StreamEnded ==
    /\ next_task > Len(tasks)
    /\ completions = <<>>
    /\ \A w \in DOMAIN workers : workers[w].state # "busy"

\* Mutant: a table is built and returned even from no results.
returned_df_always(res, source) == << build_table(res, source) >>

\* What analyse_video returns: the table, or None when there are no results.
returned_df(res, source) ==
    IF res # <<>> THEN << build_table(res, source) >> ELSE <<>>

\* process_all_videos, lines 351-352.
append_df(dfs, df) ==
    IF df # <<>> THEN Append(dfs, df[1]) ELSE dfs

\* emotion_counts (lines 288-292): each label of the table with its count.
emotion_counts(t) ==
    [l \in {t[i].dominant_emotion : i \in 1..Len(t)} |->
       Cardinality({i \in 1..Len(t) : t[i].dominant_emotion = l})]

\* The summary analyse_video_internal logs (lines 287-309): only in the
\* branch that has results.
logged_summary(df, analysed, unsuccessful, backend_error) ==
    IF df # <<>>
    THEN << [emotion_counts |-> emotion_counts(df[1]),
             failures |->
               Cardinality({i \in 1..Len(df[1]) :
                  df[1][i].dominant_emotion \in
                    {"no dominant emotion detected", "no face detected"}}),
             analysed_frames |-> analysed,
             unsuccessful_retries |-> unsuccessful,
             backend_error |-> backend_error] >>
    ELSE <<>>

\* The stream ends: the pool is shut down, the table is built and written
\* (lines 236-313), and the batch loop takes the return value (350-352).
FinishVideo ==
    /\ pc = "drain"
    /\ StreamEnded
    /\ \E source \in {source_of(video_files[vidx])} :
       \E df \in {returned_df(results, source)} :
           /\ csv_dir' = IF df # <<>> THEN [csv_dir EXCEPT ![source] = df]
                         ELSE csv_dir
           /\ combined_dfs' = append_df(combined_dfs, df)
           /\ video_log' = Append(video_log,
                  [video |-> video_files[vidx],
                   ended |-> IF df # <<>> THEN "analysis completed"
                             ELSE "no analysis results",
                   df |-> df,
                   summary |-> logged_summary(df, analysed_frames,
                                   unsuccessful_retries, error_counter)])
    /\ workers' = shutdown_pool(workers)
    /\ pc' = "next"
    /\ vidx' = vidx + 1
    /\ UNCHANGED <<config_vars, video_files, combined_csv, video_vars,
                   next_task, completions, task_log, drain_vars, error_counter,
                   pool_count>>

\* What process_all_videos writes as the combined table (lines 354-371).
combined_output(dfs) ==
    IF dfs # <<>> THEN << combine_tables(dfs) >> ELSE <<>>

\* After the last video, lines 354-388.
FinishBatch ==
    /\ pc = "next"
    /\ vidx > Len(video_files)
    /\ combined_csv' = combined_output(combined_dfs)
    /\ pc' = "done"
    /\ UNCHANGED <<config_vars, video_files, vidx, combined_dfs, video_vars,
                   pool_vars, drain_vars, error_counter, csv_dir, pool_count,
                   video_log>>

Next ==
    \/ Discover
    \/ OpenVideo
    \/ ReadFrame
    \/ StartPool
    \/ \E w \in DOMAIN workers : InitWorker(w)
    \/ \E w \in DOMAIN workers : TakeTask(w)
    \/ \E w \in DOMAIN workers : FinishTask(w)
    \/ Drain
    \/ Collect
    \/ FinishVideo
    \/ FinishBatch

Spec == Init /\ [][Next]_vars

SpecSampler == InitSampler /\ [][Next]_vars

SpecPool == InitPool /\ [][Next]_vars

SpecBatch == InitBatch /\ [][Next]_vars

\* Scheduling.  The coordinator is one sequential program and the
\* operating system runs the worker processes: while the coordinator or a
\* worker has a step to take, a step is taken.  No step of the program leads
\* back to an earlier state, so this is all that termination needs.
Fairness == WF_vars(Next)

\* A batch of short videos, for the runs under fair scheduling.
InitFair ==
    InitWith(Listings(FileNames, MaxFairFiles), {1}, {1},
             [max_frames |-> MaxFairFrames, frames |-> {"corrupt", "edge"}])

SpecFair == InitFair /\ [][Next]_vars /\ Fairness

\* ------------------------------------------------------ claims: helpers
\* The per-video tables emitted so far.
PerVideoTables ==
    {csv_dir[s][1] : s \in {x \in Sources : csv_dir[x] # <<>>}}
      \cup {video_log[i].df[1] :
              i \in {k \in 1..Len(video_log) : video_log[k].df # <<>>}}

RowsOf(t) == {t[i] : i \in 1..Len(t)}

EmittedRows == UNION {RowsOf(t) : t \in PerVideoTables}

RawScores(row) == {row.raw_output[i].score : i \in 1..Len(row.raw_output)}

LastLog == video_log[Len(video_log)]

\* The per-video variables still belong to the video of the last log entry.
LastVideoAnalysed ==
    /\ pc \in {"next", "done"}
    /\ video_log # <<>>
    /\ LastLog.ended # "could not open"

\* Completions the coordinator has taken off the stream for this video.
DrainedSoFar ==
    (next_task - 1)
      - Cardinality({w \in DOMAIN workers : workers[w].state = "busy"})
      - Len(completions)

\* ------------------------------------------------------------------ C1
\* C1: for every stride N >= 1, the frame indices in the task list are
\* exactly the multiples of N below the number of frames decoded so far,
\* each once and in ascending order, so there are ceil(total_frames / N).
C1_StrideCorrectness ==
    /\ {tasks[i].frame_number : i \in 1..Len(tasks)}
         = {k * frame_step : k \in 0..total_frames} \cap (0..(total_frames - 1))
    /\ \A i, j \in 1..Len(tasks) :
         i < j => tasks[i].frame_number < tasks[j].frame_number
    /\ Len(tasks) * frame_step >= total_frames
    /\ (Len(tasks) - 1) * frame_step < total_frames \/ total_frames = 0

\* A video whose length is no multiple of the stride has been sampled.
C1_Witness ==
    /\ pc = "drain"
    /\ frame_step = 3
    /\ total_frames = 8
    /\ Len(tasks) = 3

\* ------------------------------------------------------------------ C2
\* C2: in every emitted per-video table frame_number strictly increases
\* from each row to the next, whatever the order of the completions.
C2_OrderingInvariant ==
    \A t \in PerVideoTables :
      \A i \in 1..(Len(t) - 1) : t[i].frame_number < t[i + 1].frame_number

\* A table was emitted from results that arrived in descending order.
C2_Witness ==
    /\ LastVideoAnalysed
    /\ Len(results) = 2
    /\ results[1].frame_number > results[2].frame_number
    /\ LastLog.df # <<>>
    /\ Len(LastLog.df[1]) = 2

\* ------------------------------------------------------------------ C3
\* C3: every emitted row whose face_confidence is below the threshold has
\* all seven emotion columns 0 and the label "no face detected".
C3_GatingInvariant ==
    \A r \in EmittedRows :
      r.face_confidence < FACE_CONFIDENCE_THRESHOLD =>
        /\ \A e \in Emotions : r[e] = 0
        /\ r.dominant_emotion = "no face detected"

\* A row below the threshold whose raw scores are not all 0 was emitted.
C3_Witness ==
    \E r \in EmittedRows :
      /\ r.face_confidence < FACE_CONFIDENCE_THRESHOLD
      /\ \E x \in RawScores(r) : x >= EMOTION_SCORE_THRESHOLD

InvalidTasks == {i \in 1..Len(tasks) : tasks[i].frame \in InvalidFrames}

ErrorTasks ==
    {i \in 1..Len(tasks) :
       /\ tasks[i].frame \notin InvalidFrames
       /\ LET a == DeepFace_analyze(tasks[i].frame)
          IN  a.raised \/ a.emotion = <<>>}

RowsFor(t, n) == Cardinality({i \in 1..Len(t) : t[i].frame_number = n})

\* C5: once a video's stream is drained, its table has sampled - failed
\* rows, failed (unsuccessful_retries) is the number of invalid frames plus
\* the number of inference errors, a failed frame has no row and every other
\* sampled frame has exactly one.
C5_CompletenessUnderFailure ==
    /\ (pc = "drain" /\ StreamEnded) =>
         /\ unsuccessful_retries
              = Cardinality(InvalidTasks) + Cardinality(ErrorTasks)
         /\ Len(results) = total_tasks - unsuccessful_retries
    /\ LastVideoAnalysed =>
         LET t == IF LastLog.df # <<>> THEN LastLog.df[1] ELSE <<>>
         IN  /\ unsuccessful_retries
                  = Cardinality(InvalidTasks) + Cardinality(ErrorTasks)
             /\ Len(t) = total_tasks - unsuccessful_retries
             /\ \A i \in 1..Len(tasks) :
                  RowsFor(t, tasks[i].frame_number)
                    = IF i \in InvalidTasks \cup ErrorTasks THEN 0 ELSE 1

\* A table was emitted for a video with an invalid frame and a good one.
C5_Witness ==
    /\ LastVideoAnalysed
    /\ total_tasks = 2
    /\ Cardinality(InvalidTasks) = 1
    /\ LastLog.df # <<>>
    /\ Len(LastLog.df[1]) = 1

\* ------------------------------------------------------------------ C6
\* The tables the videos of the batch returned, in the order of the videos.
ReturnedTables ==
    LET kept == SelectSeq(video_log, LAMBDA e : e.df # <<>>)
    IN  [i \in 1..Len(kept) |-> kept[i].df[1]]

CountIn(t, r) == Cardinality({i \in 1..Len(t) : t[i] = r})

RECURSIVE SumOver(_, _, _)
\* f[1] + ... + f[n]
SumOver(f, n, acc) == IF n = 0 THEN acc ELSE SumOver(f, n - 1, acc + f[n])

\* C6: an emitted combined table holds every row of every per-video table of
\* the batch as often as those tables hold it and nothing else (its length is
\* the sum of their lengths), ordered by source, then by frame_number.
C6_CombinedTableInvariant ==
    combined_csv # <<>> =>
      LET c == combined_csv[1]
          ts == ReturnedTables
      IN  /\ Len(c) = SumOver([i \in 1..Len(ts) |-> Len(ts[i])], Len(ts), 0)
          /\ \A r \in RowsOf(c) \cup UNION {RowsOf(ts[i]) : i \in 1..Len(ts)} :
               CountIn(c, r)
                 = SumOver([i \in 1..Len(ts) |-> CountIn(ts[i], r)], Len(ts), 0)
          /\ \A i \in 1..(Len(c) - 1) :
               \/ c[i].source < c[i + 1].source
               \/ /\ c[i].source = c[i + 1].source
                  /\ c[i].frame_number <= c[i + 1].frame_number

\* Two videos of two rows each were combined, the later source listed first.
C6_Witness ==
    /\ combined_csv # <<>>
    /\ Len(ReturnedTables) = 2
    /\ Len(ReturnedTables[1]) = 2
    /\ Len(ReturnedTables[2]) = 2
    /\ ReturnedTables[1][1].source > ReturnedTables[2][1].source
    /\ Len(combined_csv[1]) = 4

\* ------------------------------------------------------------------ C7
OpenFailures == {i \in 1..Len(video_log) : video_log[i].ended = "could not open"}

\* C7: a video that cannot be opened yields no table and no worker pool
\* (pools are created only for opened videos), and the batch goes on: when
\* it ends every video found has been attempted in turn, and the combined
\* table holds rows of exactly the sources whose videos returned a table.
C7_BatchFailureIsolation ==
    /\ \A i \in OpenFailures : video_log[i].df = <<>>
    /\ pool_count = Len(video_log) - Cardinality(OpenFailures)
                      + (IF pc \in {"drain", "update"} THEN 1 ELSE 0)
    /\ pc \notin {"drain", "update"} => workers = <<>>
    /\ \A s \in Sources :
         csv_dir[s] # <<>> =>
           \E i \in 1..Len(video_log) :
             /\ i \notin OpenFailures
             /\ source_of(video_log[i].video) = s
             /\ video_log[i].df = csv_dir[s]
    /\ (pc = "done" /\ video_files # <<>>) =>
         /\ Len(video_log) = Len(video_files)
         /\ \A i \in 1..Len(video_files) : video_log[i].video = video_files[i]
         /\ {r.source : r \in (IF combined_csv # <<>>
                                THEN RowsOf(combined_csv[1]) ELSE {})}
              = {source_of(video_log[i].video) :
                   i \in {k \in 1..Len(video_log) : video_log[k].df # <<>>}}

\* The batch ended: its first video could not be opened, a later one was
\* analysed and is in the combined table.
C7_Witness ==
    /\ pc = "done"
    /\ Len(video_log) >= 2
    /\ video_log[1].ended = "could not open"
    /\ video_log[Len(video_log)].ended = "analysis completed"
    /\ combined_csv # <<>>

\* ------------------------------------------------------------------ C8
NoResults == {i \in 1..Len(video_log) : video_log[i].ended = "no analysis results"}

\* C8: a video that opens and yields no successful result returns no table,
\* the batch goes on to the next video, no row of the combined table comes
\* from it, and a batch none of whose videos returned a table emits no
\* combined table.
C8_EmptyResultSet ==
    /\ \A i \in NoResults : video_log[i].df = <<>>
    /\ \A i \in 1..Len(video_log) :
         video_log[i].df # <<>> => video_log[i].df[1] # <<>>
    /\ LastVideoAnalysed =>
         (Len(results) = 0 <=> Len(video_log) \in NoResults)
    /\ (pc = "next" /\ video_log # <<>>) => vidx = Len(video_log) + 1
    /\ pc = "done" =>
         /\ video_files # <<>> => Len(video_log) = Len(video_files)
         /\ combined_csv # <<>> =>
              /\ combined_csv[1] # <<>>
              /\ Len(combined_csv[1])
                   = SumOver([i \in 1..Len(video_log) |->
                                IF i \in NoResults \cup OpenFailures THEN 0
                                ELSE Len(video_log[i].df[1])],
                             Len(video_log), 0)
         /\ combined_csv = <<>> <=>
              \A i \in 1..Len(video_log) : video_log[i].df = <<>>

\* The batch ended: its first video was decoded and every sampled frame
\* failed, its second video was analysed.
C8_Witness ==
    /\ pc = "done"
    /\ Len(video_log) = 2
    /\ video_log[1].ended = "no analysis results"
    /\ video_log[2].ended = "analysis completed"
    /\ Len(combined_csv[1]) = Len(video_log[2].df[1])

\* ------------------------------------------------------------------ C9
NoVideoNames ==
    \A i \in 1..Len(listing) :
      Lower(listing[i].ext) \notin {"mp4", "avi", "mov", "mkv"}

\* C9: when no file name of the directory ends, lower-cased, in .mp4, .avi,
\* .mov or .mkv, process_all_videos returns at once: no video is attempted,
\* no pool is created and no table is written.
C9_NoInputVideos ==
    (NoVideoNames /\ pc # "start") =>
      /\ pc = "done"
      /\ video_files = <<>>
      /\ video_log = <<>>
      /\ pool_count = 0
      /\ workers = <<>>
      /\ tasks = <<>>
      /\ \A s \in Sources : csv_dir[s] = <<>>
      /\ combined_csv = <<>>

\* process_all_videos has returned from a directory that holds files and
\* no video.
C9_Witness ==
    /\ pc = "done"
    /\ listing # <<>>
    /\ NoVideoNames

\* ------------------------------------------------------------------ C10
\* C10: while a video is drained the progress counter equals the number of
\* completions taken off the stream so far, successes and failures alike; it
\* never exceeds total_tasks and equals total_tasks when the stream ends.
C10_ProgressAccounting ==
    pc = "drain" =>
      /\ progress_counter = DrainedSoFar
      /\ progress_counter = analysed_frames + unsuccessful_retries
      /\ progress_counter <= total_tasks
      /\ StreamEnded => progress_counter = total_tasks

\* The second video of a batch has been drained: a failure and a success.
C10_Witness ==
    /\ pc = "drain"
    /\ StreamEnded
    /\ Len(video_log) >= 1
    /\ video_log[1].ended = "analysis completed"
    /\ total_tasks = 2
    /\ unsuccessful_retries = 1
    /\ analysed_frames = 1
    /\ progress_counter = 2

\* ------------------------------------------------------------------ C11
\* The processes inside update_progress's "with lock:" block.  Workers never
\* call update_progress: it runs in the coordinator's drain loop.
InCriticalSection == IF pc = "update" THEN {"coordinator"} ELSE {}

\* C11: the increment of the counter, the read of its new value and the
\* decision to log happen while the lock is held; at most one process is in
\* that critical section, it is the holder of the lock, and the lock is free
\* whenever no update is under way.
C11_ProgressMutualExclusion ==
    /\ Cardinality(InCriticalSection) <= 1
    /\ Cardinality(lock) <= 1
    /\ lock = InCriticalSection
    /\ pc = "update" =>
         /\ current # <<>>
         /\ progress_counter = analysed_frames + unsuccessful_retries + 1
    /\ pc = "drain" =>
         /\ lock = {}
         /\ progress_counter = analysed_frames + unsuccessful_retries

\* The coordinator is inside the critical section for the first completion
\* while another worker is still busy with a frame.
C11_Witness ==
    /\ pc = "update"
    /\ lock = {"coordinator"}
    /\ progress_counter = 1
    /\ \E w \in DOMAIN workers : workers[w].state = "busy"

\* ------------------------------------------------------------------ C12
\* Workers whose initializer has not run yet.
Uninitialised == {w \in DOMAIN workers : workers[w].inits = 0}

\* C12 (as stated): every worker of a video's pool has run its initializer
\* exactly once by the time the pool is shut down.
C12_EveryWorkerInitialised ==
    [][(workers # <<>> /\ workers' = <<>>) =>
          \A w \in DOMAIN workers : workers[w].inits = 1]_vars

\* C12 (amended): no worker runs its initializer more than once; a worker
\* that holds or has held a task has run it exactly once and holds the
\* preloaded model handle; a worker whose initializer has not run holds no
\* task and no handle.  The pool may be shut down before a worker that never
\* received a task has started.
C12_WorkerInitialisation ==
    /\ \A w \in DOMAIN workers :
          /\ workers[w].inits \in {0, 1}
          /\ workers[w].inits = 0 <=> workers[w].state = "starting"
          /\ workers[w].inits = 0 =>
                /\ workers[w].task = 0
                /\ workers[w].global_model = "None"
          /\ workers[w].state \in {"idle", "busy"} =>
                /\ workers[w].inits = 1
                /\ workers[w].global_model = "emotion_model"
    /\ (workers # <<>> /\ \E i \in DOMAIN task_log : task_log[i].taken > 0)
          => \E w \in DOMAIN workers : workers[w].inits = 1

\* One worker is busy with a frame after its single initialisation while
\* the other worker of the pool has not started yet.
C12_Witness ==
    /\ \E w \in DOMAIN workers :
          /\ workers[w].state = "busy"
          /\ workers[w].inits = 1
          /\ workers[w].global_model = "emotion_model"
    /\ Uninitialised # {}

\* ------------------------------------------------------------------ C13
\* The workers that hold task i.
HoldersOf(i) == {w \in DOMAIN workers : workers[w].task = i}

\* An outcome is a result or a failure, never both and never neither.
ResultXorFailure(o) ==
    /\ ~o.raised
    /\ (o.value.analysis_dict # <<>>) # (o.value.error # <<>>)

\* C13: while a video's pool runs, under every interleaving each sampled
\* task is taken at most once and by one worker, yields at most one outcome,
\* which is a result or a failure and never both, and the model is called at
\* most once for it; when the stream has ended every task has been taken
\* exactly once and has exactly one outcome.
C13_ExactlyOnceNoRetry ==
    pc \in {"drain", "update"} =>
      /\ DOMAIN task_log = 1..Len(tasks)
      /\ \A i \in DOMAIN task_log :
            /\ task_log[i].taken = (IF i < next_task THEN 1 ELSE 0)
            /\ Len(task_log[i].outcomes) <= task_log[i].taken
            /\ Cardinality(HoldersOf(i)) =
                  task_log[i].taken - Len(task_log[i].outcomes)
            /\ task_log[i].model_calls <= Len(task_log[i].outcomes)
            /\ \A k \in 1..Len(task_log[i].outcomes) :
                  /\ ResultXorFailure(task_log[i].outcomes[k])
                  /\ task_log[i].outcomes[k].value =
                        analyse_emotion_multiproc(tasks[i])
      /\ StreamEnded =>
            \A i \in DOMAIN task_log :
               /\ task_log[i].taken = 1
               /\ Len(task_log[i].outcomes) = 1

\* A video of two frames has been worked off: the frame whose model call
\* failed was tried once, the other frame gave a result, and the two were
\* finished out of order.
C13_Witness ==
    /\ pc = "drain"
    /\ Len(tasks) = 2
    /\ worker_path(tasks[1]) = "exception"
    /\ task_log[1].taken = 1
    /\ task_log[1].model_calls = 1
    /\ Len(task_log[1].outcomes) = 1
    /\ worker_path(tasks[2]) = "ok"
    /\ Len(task_log[2].outcomes) = 1
    /\ Len(completions) = 2
    /\ completions[1].value.analysis_dict # <<>>
    /\ completions[2].value.error # <<>>

\* ------------------------------------------------------------------ C14
\* C14: no completion carries an exception and the coordinator never
\* crashes; every frame whose model call raised, or whose result had an empty
\* or missing emotion mapping, comes back as a failure value naming the
\* frame; and a video that had such frames is still drained to its last
\* task.
C14_ExceptionContainment ==
    /\ pc # "crashed"
    /\ \A k \in 1..Len(completions) : ~completions[k].raised
    /\ pc \in {"drain", "update"} =>
          \A i \in ErrorTasks :
             \A k \in 1..Len(task_log[i].outcomes) :
                LET o == task_log[i].outcomes[k]
                IN  /\ ~o.raised
                    /\ o.value.analysis_dict = <<>>
                    /\ o.value.error =
                          << [kind |-> "error in analysis",
                              frame_number |-> tasks[i].frame_number] >>
    /\ LastVideoAnalysed =>
          /\ analysed_frames + unsuccessful_retries = Len(tasks)
          /\ unsuccessful_retries >= Cardinality(ErrorTasks)

\* The first frame's result had no emotion mapping and became a failure; the
\* drain went on, and the second frame's row is in the returned table.
C14_Witness ==
    /\ LastVideoAnalysed
    /\ Len(tasks) = 2
    /\ tasks[1].frame = "nomap"
    /\ worker_path(tasks[2]) = "ok"
    /\ unsuccessful_retries = 1
    /\ analysed_frames = 1
    /\ LastLog.df # <<>>
    /\ Len(LastLog.df[1]) = 1

\* ------------------------------------------------------------------ C15
\* The videos whose pipeline ran to the end of the drain.
DrainedVideos == {k \in 1..Len(video_log) : video_log[k].ended # "could not open"}

\* C15: for every video whose pipeline ran to the end of the drain the
\* summary (the failure counts and the histogram of dominant labels) has
\* been reported, whether the video produced rows or not.
C15_SummaryAlwaysReported ==
    \A k \in DrainedVideos :
       /\ video_log[k].summary # <<>>
       /\ video_log[k].df = <<>> =>
             /\ video_log[k].summary[1].analysed_frames = 0
             /\ video_log[k].summary[1].failures = 0

\* ------------------------------------------------------------------ C16
\* The tasks a worker has finished.
FinishedTasks == {i \in DOMAIN task_log : task_log[i].outcomes # <<>>}

\* C16: a task whose frame is absent or has zero size, height or width comes
\* back as an invalid-frame failure for its frame index; the model has not
\* been called for it and the backend-error counter has not been
\* incremented for it.
C16_CheapReject ==
    pc \in {"drain", "update"} =>
      /\ \A i \in InvalidTasks :
            /\ task_log[i].model_calls = 0
            /\ task_log[i].backend_errors = 0
            /\ \A k \in 1..Len(task_log[i].outcomes) :
                  task_log[i].outcomes[k].value =
                     [analysis_dict |-> <<>>, emotion |-> <<>>,
                      error |-> << [kind |-> "invalid frame",
                                    frame_number |-> tasks[i].frame_number] >>]
      /\ \A i \in FinishedTasks \ InvalidTasks : task_log[i].model_calls = 1
      /\ \A w \in DOMAIN workers :
            workers[w].error_counter <=
               Cardinality(FinishedTasks \cap ErrorTasks)

\* An invalid frame and a frame whose model call failed have both been
\* finished: only the second one called the model and counted an error.
C16_Witness ==
    /\ pc = "drain"
    /\ \E i \in InvalidTasks \cap FinishedTasks :
          task_log[i].model_calls = 0
    /\ \E j \in ErrorTasks \cap FinishedTasks :
          /\ task_log[j].model_calls = 1
          /\ task_log[j].backend_errors = 1
    /\ \E w \in DOMAIN workers : workers[w].error_counter = 1

\* ------------------------------------------------------------------ C17
\* C17: progress is logged every 10% of a video's tasks: over the whole
\* drain of a video at most 10 progress lines are written, whatever the
\* number of tasks.
C17_DecileProgressLogging ==
    /\ progress_lines <= 10
    /\ progress_lines <= progress_counter

\* ------------------------------------------------------------------ C18
\* What the workers return for the sampled frames, in the order of the task
\* list: it depends on the video, the stride and the model alone.
OutcomesInTaskOrder == [i \in 1..Len(tasks) |-> analyse_emotion_multiproc(tasks[i])]

HasResult(res) == res.analysis_dict # <<>>

ResultsInTaskOrder ==
    LET ok == SelectSeq(OutcomesInTaskOrder, HasResult)
    IN  [i \in 1..Len(ok) |-> ok[i].analysis_dict[1]]

\* C18: once a video is drained, its table and its counts of analysed and
\* failed frames are those computed from the task list in task order,
\* whatever the order in which the workers completed: two executions on the
\* same video, stride and model outcomes give the same table and counts.
C18_CompletionOrderIndependence ==
    LastVideoAnalysed =>
      /\ LastLog.df =
            returned_df(ResultsInTaskOrder, source_of(LastLog.video))
      /\ analysed_frames = Len(ResultsInTaskOrder)
      /\ unsuccessful_retries = Len(tasks) - Len(ResultsInTaskOrder)

\* Two different frames completed in the reverse of their task order, and
\* the table lists them in task order.
C18_Witness ==
    /\ LastVideoAnalysed
    /\ Len(ResultsInTaskOrder) = 2
    /\ tasks[1].frame # tasks[2].frame
    /\ results[1] = ResultsInTaskOrder[2]
    /\ results[2] = ResultsInTaskOrder[1]
    /\ LastLog.df[1][1].frame_number = tasks[1].frame_number
    /\ analysed_frames = 2

\* ------------------------------------------------------------------ C19
\* The videos of the batch that are finished (analysed or failed to open).
FinishedVideos == 1..Len(video_log)

\* C19: the videos are processed one after another.  Every worker belongs
\* to the video being processed; workers exist only while that video's
\* stream is drained; whenever a video is opened or read, all videos before
\* it are finished, their pools are shut down and their tables are written;
\* and the combined table is written only after the last video.
C19_SequentialVideos ==
    /\ \A w \in DOMAIN workers : workers[w].video = vidx
    /\ workers # <<>> => pc \in {"drain", "update"}
    /\ vidx >= 1 => Len(video_log) = vidx - 1
    /\ pc \in {"next", "read", "drain", "update"} =>
          /\ combined_csv = <<>>
          /\ \A k \in FinishedVideos :
                /\ video_log[k].video = video_files[k]
                /\ video_log[k].df # <<>> =>
                      csv_dir[source_of(video_files[k])] # <<>>
    /\ combined_csv # <<>> =>
          /\ pc = "done"
          /\ Len(video_log) = Len(video_files)
          /\ workers = <<>>

\* The second video's pool is at work; the first video is finished, its
\* table is written and no combined table exists yet.
C19_Witness ==
    /\ vidx = 2
    /\ pc = "drain"
    /\ \E w \in DOMAIN workers :
          /\ workers[w].state = "busy"
          /\ workers[w].video = 2
    /\ video_log[1].df # <<>>
    /\ csv_dir[source_of(video_files[1])] # <<>>
    /\ combined_csv = <<>>

\* ------------------------------------------------------------------ C20
\* The tasks a worker has taken and not yet finished.
UnderInference ==
    {i \in DOMAIN task_log :
       task_log[i].taken > Len(task_log[i].outcomes)}

\* The configured pool size, or 4 when it is 0 or unset.
numWorkers == IF POOL_SIZE = 0 THEN 4 ELSE POOL_SIZE

\* C20: while a video's pool exists it has numWorkers workers, numWorkers is
\* at least 1, and the number of tasks under inference never exceeds it.
C20_BoundedParallelism ==
    pc \in {"drain", "update"} =>
      /\ numWorkers >= 1
      /\ Len(workers) = numWorkers
      /\ Cardinality(UnderInference) <= numWorkers
      /\ Cardinality(UnderInference) =
            Cardinality({w \in DOMAIN workers : workers[w].state = "busy"})

\* With a configured pool size of 0 four workers are busy at once while a
\* fifth task waits.
C20_Witness ==
    /\ POOL_SIZE = 0
    /\ pc = "drain"
    /\ Cardinality(UnderInference) = 4
    /\ next_task <= Len(tasks)
    /\ Len(workers) = 4

\* ------------------------------------------------------------------ C21
\* C21: under fair scheduling every batch ends: process_all_videos returns
\* with every discovered video attempted, whether it could be opened or
\* gave results or not; and a video whose pool has been started is drained
\* to its last outcome.
C21_Termination ==
    /\ <>(/\ pc = "done"
          /\ Len(video_log) = Len(video_files)
          /\ workers = <<>>
          /\ completions = <<>>)
    /\ (pc = "drain") ~>
          (/\ pc = "next"
           /\ completions = <<>>
           /\ analysed_frames + unsuccessful_retries = Len(tasks))

\* The batch has returned after a video that could not be opened and a
\* video that gave no result were each followed by the next video.
C21_Witness ==
    /\ pc = "done"
    /\ Len(video_files) = 2
    /\ Len(video_log) = 2
    /\ video_log[1].ended \in {"could not open", "no analysis results"}
    /\ video_log[2].ended = "analysis completed"
    /\ analysed_frames = 1

\* ------------------------------------------------------------------ C22
\* C22: the backend-error count in a video's summary is the number of
\* inference-error failures the workers have produced.
C22_BackendErrorCount ==
    (LastVideoAnalysed /\ LastLog.summary # <<>>) =>
       /\ LastLog.summary[1].backend_error = Cardinality(ErrorTasks)
       /\ error_counter = Cardinality(ErrorTasks)

\* ------------------------------------------------------------------ C23
\* The frame index an outcome is about.
OutcomeFrame(v) ==
    IF v.analysis_dict # <<>> THEN v.analysis_dict[1].frame_number
    ELSE v.error[1].frame_number

\* The tasks whose outcome the coordinator has taken off the stream.
DeliveredTasks ==
    {i \in FinishedTasks :
       \A k \in 1..Len(completions) :
          OutcomeFrame(completions[k].value) # tasks[i].frame_number}

\* The tasks whose frame image the task list still holds.
HeldFrames == {i \in 1..Len(tasks) : tasks[i].frame \in AllFrames}

\* C23: while a video's stream is drained, no task whose outcome has been
\* delivered to the coordinator still has its frame image in the task list.
C23_FrameOwnership ==
    pc \in {"drain", "update"} => DeliveredTasks \cap HeldFrames = {}

\* ------------------------------------------------------------------ C24
\* The labels a table may carry.
ClosedLabels ==
    Emotions \cup {"no face detected", "no dominant emotion detected"}

\* The rows of the combined table, if it has been written.
CombinedRows == IF combined_csv = <<>> THEN {} ELSE RowsOf(combined_csv[1])

\* C24: in every emitted table, per video or combined, dominant_emotion is
\* one of the seven emotion names or one of the two sentinels, never
\* 'no emotion detected'; every row has a non-empty score mapping, and a
\* sampled frame whose mapping is empty or missing has no row.
C24_ClosedLabelSet ==
    /\ \A row \in EmittedRows \cup CombinedRows :
          /\ row.dominant_emotion \in ClosedLabels
          /\ row.dominant_emotion # "no emotion detected"
          /\ row.raw_output # <<>>
    /\ LastVideoAnalysed =>
          \A i \in 1..Len(tasks) :
             DeepFace_analyze(tasks[i].frame).emotion = <<>> =>
                \A row \in EmittedRows \cup CombinedRows :
                   row.frame_number # tasks[i].frame_number

\* The batch is done: the video had a frame without an emotion mapping, and
\* the combined table has the row of its other frame only.
C24_Witness ==
    /\ pc = "done"
    /\ combined_csv # <<>>
    /\ Len(combined_csv[1]) = 1
    /\ \E i \in 1..Len(tasks) : tasks[i].frame = "nomap"
    /\ \E row \in CombinedRows : row.dominant_emotion \in ClosedLabels

\* ------------------------------------------------------------------ C25
\* C25: in the combined table no two rows have the same source and the
\* same frame_number, whatever the names of the discovered video files.
C25_UniqueRowKey ==
    combined_csv # <<>> =>
       \A i, j \in 1..Len(combined_csv[1]) :
          (/\ combined_csv[1][i].source = combined_csv[1][j].source
           /\ combined_csv[1][i].frame_number = combined_csv[1][j].frame_number)
             => i = j

====
